---- MODULE Spec2Model ----
(***************************************************************************)
(* Model of the text highlighting and note-saving system of src/notes.js.  *)
(*                                                                         *)
(* Three specifications share the definitions below:                       *)
(*   Spec        the note store: browser tabs (contexts) that load, create *)
(*               and delete notes against one shared localStorage value;   *)
(*   AnchorSpec  the anchor codec and resolver: getPositionInfo applied to *)
(*               a selection of a document, locateNote applied to the      *)
(*               stored descriptor on the same or on a changed document;   *)
(*   JumpSpec    jumpToNote with its two nested timers and the wrapper     *)
(*               that highlightRange inserts into the document.            *)
(***************************************************************************)
EXTENDS Integers, Sequences, FiniteSets, TLC

VARIABLES
    \* ---- the note store (Spec)
    storage,    \* localStorage['pageNotes']: absent, or a serialized value
    url,        \* per context: window.location.pathname
    notes,      \* per context: the in-memory array `notes`
    pc,         \* per context: "idle", or "saving" between getItem and setItem
    op,         \* per context: the running handler's locals
    clock,      \* the last value Date.now() returned
    issued,     \* history: every id createNote has generated, in order
    live,       \* history: per document, the notes created and not deleted
    writers,    \* history: the contexts that have run createNote or deleteNote
    last,       \* history: the most recently completed operation
    \* ---- the anchor codec and resolver (AnchorSpec), the document (JumpSpec)
    dom,        \* the document tree
    sel,        \* the selection range handed to createNote, or NoRange
    desc,       \* the stored position descriptor, or NoDesc
    located,    \* the last value locateNote returned, or NotRun
    \* ---- the transient highlight (JumpSpec)
    jnotes,     \* the notes of the page that jumpToNote looks up
    timers,     \* pending setTimeout callbacks, in the order they were set
    now,        \* time in units of the highlight delay (500 ms)
    jumps,      \* number of jumpToNote calls so far
    marks,      \* history: which jump inserted which wrapper element
    \* ---- the reading-pace display (RsvpSpec)
    rsvp        \* the state of src/rsvp.js and its pending playback timers

storeVars == <<storage, url, notes, pc, op, clock, issued, live, writers, last>>
anchorVars == <<dom, sel, desc, located>>
jumpVars == <<jnotes, timers, now, jumps, marks>>
vars == <<storage, url, notes, pc, op, clock, issued, live, writers, last,
          dom, sel, desc, located, jnotes, timers, now, jumps, marks, rsvp>>

(***************************************************************************)
(* Strings are sequences of one-character strings.                         *)
(***************************************************************************)
Min(a, b) == IF a < b THEN a ELSE b
Max(a, b) == IF a > b THEN a ELSE b

\* String.prototype.substring(start, end): both indices clamped to the
\* string, swapped when start > end; characters start .. end-1 (0-based).
Substring(s, start, end) ==
    LET a == Min(Max(start, 0), Len(s))
        b == Min(Max(end, 0), Len(s))
    IN  SubSeq(s, Min(a, b) + 1, Max(a, b))

\* String.prototype.includes(sub)
Includes(s, sub) ==
    \E i \in 0..(Len(s) - Len(sub)) : SubSeq(s, i + 1, i + Len(sub)) = sub

\* String.prototype.trim(): leading and trailing white space removed.
RECURSIVE TrimLeft(_)
TrimLeft(s) == IF s # <<>> /\ Head(s) = " " THEN TrimLeft(Tail(s)) ELSE s

RECURSIVE TrimRight(_)
TrimRight(s) ==
    IF s # <<>> /\ s[Len(s)] = " " THEN TrimRight(SubSeq(s, 1, Len(s) - 1)) ELSE s

Trim(s) == TrimRight(TrimLeft(s))

RECURSIVE Concat(_)
Concat(ss) == IF ss = <<>> THEN <<>> ELSE Head(ss) \o Concat(Tail(ss))

(***************************************************************************)
(* The document.  Nodes are numbered from 1; node 1 is the document node.  *)
(* A document is a record of four sequences indexed by node: tag (the      *)
(* lower-case nodeName, "#text" for a text node, "#document" for node 1),  *)
(* data (a text node's characters), kids (childNodes) and cls (an          *)
(* element's class, "" when it has none).  Null is the null node.          *)
(***************************************************************************)
Null == 0

DocumentNode == 1

IsText(d, n) == n # Null /\ d.tag[n] = "#text"

IsElement(d, n) == n # Null /\ d.tag[n] \notin {"#text", "#document"}

\* node.parentNode
Parent(d, n) ==
    IF \E p \in DOMAIN d.kids : \E i \in DOMAIN d.kids[p] : d.kids[p][i] = n
    THEN CHOOSE p \in DOMAIN d.kids : \E i \in DOMAIN d.kids[p] : d.kids[p][i] = n
    ELSE Null

\* the place of n among the children of p, counted from 1
IndexIn(d, p, n) == CHOOSE i \in DOMAIN d.kids[p] : d.kids[p][i] = n

\* a node's length as the Range interface counts it
NodeLength(d, n) == IF IsText(d, n) THEN Len(d.data[n]) ELSE Len(d.kids[n])

RECURSIVE Preorder(_, _)
RECURSIVE PreorderAll(_, _)
\* n and its descendants in document order
Preorder(d, n) == <<n>> \o PreorderAll(d, d.kids[n])

PreorderAll(d, ns) ==
    IF ns = <<>> THEN <<>> ELSE Preorder(d, Head(ns)) \o PreorderAll(d, Tail(ns))

\* the place of n in document order
DocPos(d, n) ==
    LET o == Preorder(d, DocumentNode) IN CHOOSE i \in DOMAIN o : o[i] = n

InDocument(d, n) ==
    n # Null /\ \E i \in DOMAIN Preorder(d, DocumentNode) : Preorder(d, DocumentNode)[i] = n

\* the text nodes under element e in document order: what a TreeWalker
\* rooted at e with NodeFilter.SHOW_TEXT yields from nextNode()
TextNodesUnder(d, e) ==
    LET o == Preorder(d, e) IN SelectSeq(o, LAMBDA n : d.tag[n] = "#text")

(***************************************************************************)
(* AnchorCodec                                                             *)
(***************************************************************************)
\* the number of previous siblings of n that are elements named like n
SameTagBefore(d, n) ==
    LET p == Parent(d, n)
    IN  IF p = Null THEN 0
        ELSE Cardinality({i \in 1..(IndexIn(d, p, n) - 1) :
                 /\ IsElement(d, d.kids[p][i])
                 /\ d.tag[d.kids[p][i]] = d.tag[n]})

\* one step "tag" or "tag[k]" of a path: nth = 0 stands for no predicate
XPathStep(d, n) ==
    LET index == SameTagBefore(d, n)
    IN  [tag |-> d.tag[n], nth |-> IF index > 0 THEN index + 1 ELSE 0]

RECURSIVE XPathFrom(_, _)
XPathFrom(d, n) ==
    IF ~IsElement(d, n) THEN <<>>
    ELSE XPathFrom(d, Parent(d, n)) \o <<XPathStep(d, n)>>

\* getXPath(node): the path of the element, of the parent for a text node
getXPath(d, node) == XPathFrom(d, IF IsText(d, node) THEN Parent(d, node) ELSE node)

ContextRadius == 20

\* getContextText that takes the text from the offset on only
getContextTextAfter(d, node, offset) ==
    IF IsText(d, node)
    THEN Substring(d.data[node], offset, Min(Len(d.data[node]), offset + ContextRadius))
    ELSE <<>>

\* getContextText(node, offset)
getContextText(d, node, offset) ==
    IF IsText(d, node)
    THEN LET text == d.data[node]
             start == Max(0, offset - ContextRadius)
             end == Min(Len(text), offset + ContextRadius)
         IN  Substring(text, start, end)
    ELSE <<>>

\* A range is a pair of boundary points (container node, offset).
NoRange == [kind |-> "none"]

MkRange(sn, so, en, eo) ==
    [kind |-> "range", startContainer |-> sn, startOffset |-> so,
     endContainer |-> en, endOffset |-> eo]

\* getPositionInfo(range)
getPositionInfo(d, range) ==
    [startXPath |-> getXPath(d, range.startContainer),
     endXPath |-> getXPath(d, range.endContainer),
     startOffset |-> range.startOffset,
     endOffset |-> range.endOffset,
     startText |-> getContextText(d, range.startContainer, range.startOffset),
     endText |-> getContextText(d, range.endContainer, range.endOffset)]


(***************************************************************************)
(* AnchorResolver                                                          *)
(***************************************************************************)
\* the element names of the SVG namespace that the pages use
SvgTags == {"svg", "text"}

\* the element is in the HTML namespace
IsHTMLElement(d, n) == IsElement(d, n) /\ d.tag[n] \notin SvgTags

\* the element children of c that one location step selects.  The path has
\* no prefixes and document.evaluate is given no namespace resolver (its
\* third argument is null): in an HTML document such a name test selects
\* elements of the HTML namespace only.
StepFrom(d, c, step) ==
    {k \in {d.kids[c][i] : i \in DOMAIN d.kids[c]} :
        /\ IsHTMLElement(d, k)
        /\ d.tag[k] = step.tag
        /\ step.nth # 0 => SameTagBefore(d, k) + 1 = step.nth}

RECURSIVE EvalSteps(_, _, _)
\* the node-set an absolute location path selects, step by step
EvalSteps(d, ctx, steps) ==
    IF steps = <<>> THEN ctx
    ELSE EvalSteps(d, UNION {StepFrom(d, c, Head(steps)) : c \in ctx}, Tail(steps))

\* getNodeByXPath(xpath): document.evaluate with FIRST_ORDERED_NODE_TYPE gives
\* the first node of the node-set in document order, null for an empty set
getNodeByXPath(d, xpath) ==
    LET found == EvalSteps(d, {DocumentNode}, xpath)
    IN  IF found = {} THEN Null
        ELSE CHOOSE n \in found : \A m \in found : DocPos(d, n) <= DocPos(d, m)

SnippetShortMax == 20

SnippetTrim == 10

RECURSIVE FirstMatch(_, _, _)
\* the while loop of findTextNode over the walker's text nodes
FirstMatch(d, ts, contextText) ==
    IF ts = <<>> THEN Null
    ELSE LET node == Head(ts)
         IN  IF /\ Len(contextText) > SnippetShortMax
                /\ Includes(d.data[node],
                            Substring(contextText, SnippetTrim,
                                      Len(contextText) - SnippetTrim))
             THEN node
             ELSE IF /\ Len(contextText) <= SnippetShortMax
                     /\ Includes(d.data[node], contextText)
             THEN node
             ELSE FirstMatch(d, Tail(ts), contextText)

\* findTextNode without its loop: the walker's first text node
findTextNodeFirstText(d, element, contextText) ==
    LET ts == TextNodesUnder(d, element)
    IN  IF ts = <<>> THEN Null ELSE Head(ts)

\* findTextNode without its fallback
findTextNodeStrict(d, element, contextText) ==
    FirstMatch(d, TextNodesUnder(d, element), contextText)

\* findTextNode(element, contextText)
findTextNode(d, element, contextText) ==
    LET ts == TextNodesUnder(d, element)
        hit == FirstMatch(d, ts, contextText)
    IN  IF hit # Null THEN hit
        ELSE IF ts = <<>> THEN Null ELSE Head(ts)

RECURSIVE IsAncestor(_, _, _)
\* a is a proper ancestor of n
IsAncestor(d, a, n) ==
    LET p == Parent(d, n)
    IN  IF p = Null THEN FALSE ELSE p = a \/ IsAncestor(d, a, p)

RECURSIVE ChildToward(_, _, _)
\* the child of a that is n or an ancestor of n
ChildToward(d, a, n) ==
    IF Parent(d, n) = a THEN n ELSE ChildToward(d, a, Parent(d, n))

\* the position of boundary point (na, oa) relative to (nb, ob) when na
\* precedes nb in document order
PositionPreceding(d, na, oa, nb, ob) ==
    IF IsAncestor(d, na, nb) /\ IndexIn(d, na, ChildToward(d, na, nb)) - 1 < oa
    THEN "after"
    ELSE "before"

\* the position of boundary point (na, oa) relative to (nb, ob)
Position(d, na, oa, nb, ob) ==
    IF na = nb
    THEN (IF oa = ob THEN "equal" ELSE IF oa < ob THEN "before" ELSE "after")
    ELSE IF DocPos(d, na) > DocPos(d, nb)
    THEN (IF PositionPreceding(d, nb, ob, na, oa) = "before" THEN "after" ELSE "before")
    ELSE PositionPreceding(d, na, oa, nb, ob)

Thrown == [kind |-> "throw"]

NotFound == [kind |-> "null"]

\* range.setStart(node, offset)
setStart(d, range, node, offset) ==
    IF offset > NodeLength(d, node) THEN Thrown
    ELSE IF Position(d, node, offset, range.endContainer, range.endOffset) = "after"
    THEN MkRange(node, offset, node, offset)
    ELSE MkRange(node, offset, range.endContainer, range.endOffset)

\* range.setEnd(node, offset)
setEnd(d, range, node, offset) ==
    IF offset > NodeLength(d, node) THEN Thrown
    ELSE IF Position(d, node, offset, range.startContainer, range.startOffset) = "before"
    THEN MkRange(node, offset, node, offset)
    ELSE MkRange(range.startContainer, range.startOffset, node, offset)

\* the body of locateNote's try block: a range, null, or a thrown exception
locateNoteTry(d, position) ==
    LET startNode == getNodeByXPath(d, position.startXPath)
        endNode == getNodeByXPath(d, position.endXPath)
    IN  IF startNode = Null \/ endNode = Null THEN NotFound
        ELSE LET startTextNode == findTextNode(d, startNode, position.startText)
                 endTextNode == findTextNode(d, endNode, position.endText)
             IN  IF startTextNode = Null \/ endTextNode = Null THEN NotFound
                 ELSE LET range == MkRange(DocumentNode, 0, DocumentNode, 0)
                          started == setStart(d, range, startTextNode,
                                              position.startOffset)
                      IN  IF started = Thrown THEN Thrown
                          ELSE setEnd(d, started, endTextNode, position.endOffset)

\* locateNote without its catch clause
locateNoteUncaught(d, position) == locateNoteTry(d, position)

\* locateNote(note): the catch clause turns every exception into null
locateNote(d, position) ==
    LET r == locateNoteTry(d, position)
    IN  IF r = Thrown THEN NotFound ELSE r

(***************************************************************************)
(* The text of a range: Range.prototype.toString() concatenates the data   *)
(* of the text nodes between the two boundary points.                      *)
(***************************************************************************)
\* the whole text of the document
AllText(d) ==
    LET ts == TextNodesUnder(d, DocumentNode)
    IN  Concat([i \in DOMAIN ts |-> d.data[ts[i]]])

RECURSIVE SumLen(_, _)
SumLen(d, ts) == IF ts = <<>> THEN 0 ELSE Len(d.data[Head(ts)]) + SumLen(d, Tail(ts))

\* the number of characters of the document that precede a boundary point
CharsBefore(d, n, o) ==
    LET ts == TextNodesUnder(d, DocumentNode)
        limit == IF IsText(d, n) THEN DocPos(d, n)
                 ELSE IF o < Len(d.kids[n]) THEN DocPos(d, d.kids[n][o + 1])
                 ELSE DocPos(d, n) + Len(Preorder(d, n))
    IN  SumLen(d, SelectSeq(ts, LAMBDA t : DocPos(d, t) < limit))
        + (IF IsText(d, n) THEN o ELSE 0)

\* range.toString()
RangeText(d, r) ==
    SubSeq(AllText(d),
           CharsBefore(d, r.startContainer, r.startOffset) + 1,
           CharsBefore(d, r.endContainer, r.endOffset))

\* range.collapsed
Collapsed(r) == r.startContainer = r.endContainer /\ r.startOffset = r.endOffset

\* the tests of createNote without the one on the trimmed text
AcceptsUntrimmed(d, selection) ==
    /\ selection # NoRange
    /\ ~Collapsed(selection)

\* the tests of createNote that let a selection become a note
Accepts(d, selection) ==
    /\ selection # NoRange
    /\ ~Collapsed(selection)
    /\ Trim(RangeText(d, selection)) # <<>>


(***************************************************************************)
(* HighlightController: the DOM mutations behind range.surroundContents.   *)
(* A world is the document together with its live ranges; every mutation   *)
(* moves the boundary points of the live ranges as the DOM standard says.  *)
(***************************************************************************)
HIGHLIGHT_CLASS == "note-highlight"

ACTIVE_HIGHLIGHT_CLASS == "note-highlight-active"

\* the document with one more node, not yet attached: its number is
\* Len(d.tag) + 1
AddNode(d, tag, data, cls) ==
    [tag |-> Append(d.tag, tag), data |-> Append(d.data, data),
     kids |-> Append(d.kids, <<>>), cls |-> Append(d.cls, cls)]

\* a is n or an ancestor of n
InclusiveAncestor(d, a, n) == a = n \/ IsAncestor(d, a, n)

\* the live ranges with f applied to both boundary points of each
MoveRanges(rs, f(_, _)) ==
    [i \in DOMAIN rs |->
        LET s == f(rs[i].startContainer, rs[i].startOffset)
            e == f(rs[i].endContainer, rs[i].endOffset)
        IN  MkRange(s[1], s[2], e[1], e[2])]

\* CharacterData "replace data": count characters from offset give way to data
ReplaceData(w, node, offset, count, data) ==
    [d |-> [w.d EXCEPT !.data[node] =
                SubSeq(@, 1, offset) \o data \o SubSeq(@, offset + count + 1, Len(@))],
     rs |-> MoveRanges(w.rs, LAMBDA n, o :
                IF n = node /\ o > offset /\ o <= offset + count THEN <<n, offset>>
                ELSE IF n = node /\ o > offset + count
                THEN <<n, o + Len(data) - count>>
                ELSE <<n, o>>)]

\* "insert" node into parent so that it becomes the child of index idx
InsertChild(w, node, parent, idx) ==
    [d |-> [w.d EXCEPT !.kids[parent] =
                SubSeq(@, 1, idx) \o <<node>> \o SubSeq(@, idx + 1, Len(@))],
     rs |-> MoveRanges(w.rs, LAMBDA n, o :
                IF n = parent /\ idx < Len(w.d.kids[parent]) /\ o > idx
                THEN <<n, o + 1>>
                ELSE <<n, o>>)]

\* "remove" node from its parent
RemoveChild(w, node) ==
    LET parent == Parent(w.d, node)
        idx == IndexIn(w.d, parent, node) - 1
    IN  [d |-> [w.d EXCEPT !.kids[parent] =
                    SubSeq(@, 1, idx) \o SubSeq(@, idx + 2, Len(@))],
         rs |-> MoveRanges(w.rs, LAMBDA n, o :
                    IF InclusiveAncestor(w.d, node, n) THEN <<parent, idx>>
                    ELSE IF n = parent /\ o > idx THEN <<n, o - 1>>
                    ELSE <<n, o>>)]

RECURSIVE RemoveAll(_, _)
RemoveAll(w, nodes) ==
    IF nodes = <<>> THEN w ELSE RemoveAll(RemoveChild(w, Head(nodes)), Tail(nodes))

\* Text.splitText(offset) of an attached text node; the new node is numbered
\* Len(w.d.tag) + 1
SplitText(w, node, offset) ==
    LET new == Len(w.d.tag) + 1
        length == Len(w.d.data[node])
        parent == Parent(w.d, node)
        idx == IndexIn(w.d, parent, node) - 1
        made == [w EXCEPT !.d = AddNode(w.d, "#text",
                                        SubSeq(w.d.data[node], offset + 1, length), "")]
        put == InsertChild(made, new, parent, idx + 1)
        moved == [put EXCEPT !.rs = MoveRanges(put.rs, LAMBDA n, o :
                        IF n = node /\ o > offset THEN <<new, o - offset>>
                        ELSE IF n = parent /\ o = idx + 1 THEN <<n, o + 1>>
                        ELSE <<n, o>>)]
    IN  ReplaceData(moved, node, offset, length - offset, <<>>)

\* a node that is not a text node is partially contained in the range: it
\* holds one boundary point and not the other
PartiallyContainsNonText(d, r) ==
    \E n \in DOMAIN d.tag :
        /\ ~IsText(d, n)
        /\ InclusiveAncestor(d, n, r.startContainer)
              # InclusiveAncestor(d, n, r.endContainer)

RECURSIVE CommonAncestor(_, _, _)
CommonAncestor(d, a, en) ==
    IF InclusiveAncestor(d, a, en) THEN a ELSE CommonAncestor(d, Parent(d, a), en)

\* the children of ca that the range contains, in document order
ContainedChildren(d, r, ca) ==
    SelectSeq(d.kids[ca], LAMBDA c :
        /\ Position(d, c, 0, r.startContainer, r.startOffset) = "after"
        /\ Position(d, c, NodeLength(d, c), r.endContainer, r.endOffset) = "before")

\* range.extractContents() of live range k, for a range in which no node
\* other than a text node is partially contained: the new world and the
\* nodes of the fragment
Extract(w, k) ==
    LET r == w.rs[k]
        sn == r.startContainer
        so == r.startOffset
        en == r.endContainer
        eo == r.endOffset
        new == Len(w.d.tag) + 1
    IN  IF Collapsed(r) THEN [w |-> w, frag |-> <<>>]
        ELSE IF sn = en /\ IsText(w.d, sn)
        THEN [w |-> ReplaceData(
                        [w EXCEPT !.d = AddNode(w.d, "#text",
                                                SubSeq(w.d.data[sn], so + 1, eo), "")],
                        sn, so, eo - so, <<>>),
              frag |-> <<new>>]
        ELSE LET ca == CommonAncestor(w.d, sn, en)
                 firstPartial == IF InclusiveAncestor(w.d, sn, en) THEN Null ELSE sn
                 lastPartial == IF InclusiveAncestor(w.d, en, sn) THEN Null ELSE en
                 inside == ContainedChildren(w.d, r, ca)
                 at == IF firstPartial = Null THEN <<sn, so>>
                       ELSE <<Parent(w.d, sn), IndexIn(w.d, Parent(w.d, sn), sn)>>
                 w1 == IF firstPartial = Null THEN w
                       ELSE ReplaceData(
                              [w EXCEPT !.d = AddNode(w.d, "#text",
                                  SubSeq(w.d.data[sn], so + 1, Len(w.d.data[sn])), "")],
                              sn, so, Len(w.d.data[sn]) - so, <<>>)
                 w2 == RemoveAll(w1, inside)
                 tail == Len(w2.d.tag) + 1
                 w3 == IF lastPartial = Null THEN w2
                       ELSE ReplaceData(
                              [w2 EXCEPT !.d = AddNode(w2.d, "#text",
                                  SubSeq(w2.d.data[en], 1, eo), "")],
                              en, 0, eo, <<>>)
             IN  [w |-> [w3 EXCEPT !.rs[k] = MkRange(at[1], at[2], at[1], at[2])],
                  frag |-> (IF firstPartial = Null THEN <<>> ELSE <<new>>) \o inside
                           \o (IF lastPartial = Null THEN <<>> ELSE <<tail>>)]

\* range.insertNode(node) rejects the insertion
InsertRejected(d, r, node) ==
    \/ IsText(d, r.startContainer) /\ Parent(d, r.startContainer) = Null
    \/ r.startContainer = node
    \/ ~IsText(d, r.startContainer) /\ ~IsElement(d, r.startContainer)
    \/ IsText(d, r.startContainer) /\ ~IsElement(d, Parent(d, r.startContainer))

\* range.insertNode(node) of live range k, node being detached
InsertNode(w, k, node) ==
    LET r == w.rs[k]
        sn == r.startContainer
        text == IsText(w.d, sn)
        parent == IF text THEN Parent(w.d, sn) ELSE sn
        w1 == IF text THEN SplitText(w, sn, r.startOffset) ELSE w
        idx == IF text THEN IndexIn(w1.d, parent, sn) ELSE r.startOffset
        w2 == InsertChild(w1, node, parent, idx)
    IN  IF Collapsed(w2.rs[k])
        THEN [w2 EXCEPT !.rs[k] = MkRange(@.startContainer, @.startOffset,
                                          parent, idx + 1)]
        ELSE w2

\* surroundContents that does not look for partially contained nodes first
SurroundContentsUnchecked(w, k, cls) ==
    LET span == Len(w.d.tag) + 1
        w0 == [w EXCEPT !.d = AddNode(w.d, "span", <<>>, cls)]
        ex == Extract(w0, k)
        w1 == InsertNode(ex.w, k, span)
    IN  [ok |-> TRUE, w |-> [w1 EXCEPT !.d.kids[span] = ex.frag]]

\* range.surroundContents(span) of live range k, span being a new element
\* of class cls: ok is FALSE when it throws
SurroundContents(w, k, cls) ==
    IF PartiallyContainsNonText(w.d, w.rs[k]) THEN [ok |-> FALSE, w |-> w]
    ELSE LET span == Len(w.d.tag) + 1
             w0 == [w EXCEPT !.d = AddNode(w.d, "span", <<>>, cls)]
             ex == Extract(w0, k)
         IN  IF InsertRejected(ex.w.d, ex.w.rs[k], span) THEN [ok |-> FALSE, w |-> ex.w]
             ELSE LET w1 == InsertNode(ex.w, k, span)
                      parent == Parent(w1.d, span)
                      idx == IndexIn(w1.d, parent, span) - 1
                  IN  [ok |-> TRUE,
                       w |-> [d |-> [w1.d EXCEPT !.kids[span] = ex.frag],
                              rs |-> [w1.rs EXCEPT ![k] =
                                         MkRange(parent, idx, parent, idx + 1)]]]

\* highlightRange(range, active): the exception of surroundContents is
\* caught and logged; ok tells whether the wrapper went in
highlightRange(w, k, active) ==
    SurroundContents(w, k, IF active THEN ACTIVE_HIGHLIGHT_CLASS ELSE HIGHLIGHT_CLASS)

\* document.querySelectorAll('.note-highlight-active').forEach(el =>
\*     el.classList.remove('note-highlight-active'))
ClearActive(d) ==
    [d EXCEPT !.cls = [n \in DOMAIN d.cls |->
                          IF d.cls[n] = ACTIVE_HIGHLIGHT_CLASS THEN "" ELSE d.cls[n]]]

\* the elements of the document that carry the active class
ActiveElements(d) ==
    {n \in DOMAIN d.tag : InDocument(d, n) /\ d.cls[n] = ACTIVE_HIGHLIGHT_CLASS}

(***************************************************************************)
(* Documents.  PagePlain is the page as the note was taken on it; the other *)
(* two are the same page after an edit.                                    *)
(***************************************************************************)
\* <body><p>xaby<b>c</b>ab</p><p>brown<b>!</b>the quick brown fox jumps</p><div></div></body>
PagePlain ==
    [tag |-> <<"#document", "html", "body", "p", "#text", "b", "#text", "#text", "p", "#text", "b", "#text", "#text", "div">>,
     data |-> <<<<>>,
               <<>>,
               <<>>,
               <<>>,
               <<"x", "a", "b", "y">>,
               <<>>,
               <<"c">>,
               <<"a", "b">>,
               <<>>,
               <<"b", "r", "o", "w", "n">>,
               <<>>,
               <<"!">>,
               <<"t", "h", "e", " ", "q", "u", "i", "c", "k", " ", "b", "r", "o", "w", "n", " ", "f", "o", "x", " ", "j", "u", "m", "p", "s">>,
               <<>>>>,
     kids |-> <<<<2>>, <<3>>, <<4, 9, 14>>, <<5, 6, 8>>, <<>>, <<7>>, <<>>, <<>>, <<10, 11, 13>>, <<>>, <<12>>, <<>>, <<>>, <<>>>>,
     cls |-> <<"", "", "", "", "", "", "", "", "", "", "", "", "", "">>]

\* PagePlain with <p>new</p> inserted before the first paragraph
PageDrift ==
    [tag |-> <<"#document", "html", "body", "p", "#text", "b", "#text", "#text", "p", "#text", "b", "#text", "#text", "div", "p", "#text">>,
     data |-> <<<<>>,
               <<>>,
               <<>>,
               <<>>,
               <<"x", "a", "b", "y">>,
               <<>>,
               <<"c">>,
               <<"a", "b">>,
               <<>>,
               <<"b", "r", "o", "w", "n">>,
               <<>>,
               <<"!">>,
               <<"t", "h", "e", " ", "q", "u", "i", "c", "k", " ", "b", "r", "o", "w", "n", " ", "f", "o", "x", " ", "j", "u", "m", "p", "s">>,
               <<>>,
               <<>>,
               <<"n", "e", "w">>>>,
     kids |-> <<<<2>>, <<3>>, <<15, 4, 9, 14>>, <<5, 6, 8>>, <<>>, <<7>>, <<>>, <<>>, <<10, 11, 13>>, <<>>, <<12>>, <<>>, <<>>, <<>>, <<16>>, <<>>>>,
     cls |-> <<"", "", "", "", "", "", "", "", "", "", "", "", "", "", "", "">>]

\* <body><p>xa</p><p></p></body>: text shortened, a paragraph emptied, the div gone
PageCut ==
    [tag |-> <<"#document", "html", "body", "p", "#text", "p">>,
     data |-> <<<<>>,
               <<>>,
               <<>>,
               <<>>,
               <<"x", "a">>,
               <<>>>>,
     kids |-> <<<<2>>, <<3>>, <<4, 6>>, <<5>>, <<>>, <<>>>>,
     cls |-> <<"", "", "", "", "", "">>]

\* <body><p>ab</p><svg><text>cd</text></svg></body>: a page with inline SVG
PageSvg ==
    [tag |-> <<"#document", "html", "body", "p", "#text", "svg", "text", "#text">>,
     data |-> <<<<>>,
               <<>>,
               <<>>,
               <<>>,
               <<"a", "b">>,
               <<>>,
               <<>>,
               <<"c", "d">>>>,
     kids |-> <<<<2>>, <<3>>, <<4, 6>>, <<5>>, <<>>, <<7>>, <<8>>, <<>>>>,
     cls |-> <<"", "", "", "", "", "", "", "">>]

Documents == {PagePlain, PageDrift, PageCut, PageSvg}



(***************************************************************************)
(* NoteStore.  localStorage holds one string under 'pageNotes'; the model  *)
(* keeps what the string parses to: a list of notes, something that is no  *)
(* list, or nothing that parses at all.                                    *)
(***************************************************************************)
\* JSON.stringify(allNotes)
JSONstringify(allNotes) == [kind |-> "list", items |-> allNotes]

\* localStorage.getItem throws: the storage is not accessible
GetItemThrows(stored) == stored.kind = "unavailable"

\* localStorage.setItem throws: the storage is not accessible or its quota
\* is used up
SetItemThrows(stored) == stored.kind \in {"unavailable", "full"}

\* localStorage.getItem returns null
NothingStored(stored) == stored.kind \in {"absent", "full"}

\* whether JSON.parse(stored) followed by allNotes.filter(...) throws: the
\* value does not parse, or it parses to something that has no filter
\* method or whose filter callback reads .url of null
ParseThrows(stored) == stored.kind \in {"corrupt", "notlist"}

\* JSON.parse(stored), for a stored value that parses to a list
JSONparse(stored) == stored.items

\* allNotes.filter(note => note.url === currentUrl)
OfUrl(allNotes, currentUrl) == SelectSeq(allNotes, LAMBDA note : note.url = currentUrl)

\* allNotes.filter(note => note.url !== currentUrl)
NotOfUrl(allNotes, currentUrl) == SelectSeq(allNotes, LAMBDA note : note.url # currentUrl)

\* loadNotes without the filter on the page's url
loadNotesUnfiltered(stored, currentUrl, current) ==
    IF GetItemThrows(stored) THEN <<>>
    ELSE IF NothingStored(stored) THEN current
    ELSE IF ParseThrows(stored) THEN <<>>
    ELSE JSONparse(stored)

\* loadNotes(): the value of `notes` afterwards
loadNotes(stored, currentUrl, current) ==
    IF GetItemThrows(stored) THEN <<>>
    ELSE IF NothingStored(stored) THEN current
    ELSE IF ParseThrows(stored) THEN <<>>
    ELSE OfUrl(JSONparse(stored), currentUrl)

\* the try block of saveNotes throws before it reaches setItem
SaveReadThrows(stored) ==
    GetItemThrows(stored) \/ (~NothingStored(stored) /\ ParseThrows(stored))

\* saveNotes that appends the page's notes to what is stored
saveNotesReadMerging(stored, currentUrl, current) ==
    IF SaveReadThrows(stored) THEN [write |-> FALSE, caught |-> TRUE]
    ELSE LET allNotes == IF NothingStored(stored) THEN <<>> ELSE JSONparse(stored)
         IN  [write |-> TRUE, caught |-> TRUE,
              value |-> JSONstringify(allNotes \o current)]

\* saveNotes that stores the page's notes alone
saveNotesReadPageOnly(stored, currentUrl, current) ==
    IF SaveReadThrows(stored) THEN [write |-> FALSE, caught |-> TRUE]
    ELSE [write |-> TRUE, caught |-> TRUE, value |-> JSONstringify(current)]

\* saveNotes without its catch clause
saveNotesReadUncaught(stored, currentUrl, current) ==
    IF SaveReadThrows(stored) THEN [write |-> FALSE, caught |-> FALSE]
    ELSE LET allNotes == IF NothingStored(stored) THEN <<>> ELSE JSONparse(stored)
         IN  [write |-> TRUE, caught |-> FALSE,
              value |-> JSONstringify(NotOfUrl(allNotes, currentUrl) \o current)]

\* saveNotes() from getItem to the value handed to setItem: the stored list
\* without the page's old notes, followed by `notes`; nothing to write when
\* the try block throws.  `caught` tells that an exception of the try block,
\* setItem included, ends in the catch clause.
saveNotesRead(stored, currentUrl, current) ==
    IF SaveReadThrows(stored) THEN [write |-> FALSE, caught |-> TRUE]
    ELSE LET allNotes == IF NothingStored(stored) THEN <<>> ELSE JSONparse(stored)
         IN  [write |-> TRUE, caught |-> TRUE,
              value |-> JSONstringify(NotOfUrl(allNotes, currentUrl) \o current)]

\* one decimal digit as a character
DigitChar(k) == <<"0", "1", "2", "3", "4", "5", "6", "7", "8", "9">>[k + 1]

RECURSIVE NumberToString(_)
\* Number.prototype.toString() of a non-negative integer
NumberToString(n) ==
    IF n < 10 THEN <<DigitChar(n)>>
    ELSE NumberToString(n \div 10) \o <<DigitChar(n % 10)>>

\* what Math.random().toString() can be: here "0.5" and "0.25"
RandomStrings == {<<"0", ".", "5">>, <<"0", ".", "2", "5">>}

\* Date.now().toString() + Math.random().toString().substring(2)
NoteId(time, random) == NumberToString(time) \o Substring(random, 2, Len(random))

\* the note object with no page in its url
MakeNoteOfNoPage(text, position, time, random, stamp, currentUrl) ==
    [id |-> NoteId(time, random),
     text |-> text,
     timestamp |-> stamp,
     url |-> "",
     position |-> position]

\* the note object createNote builds
MakeNote(text, position, time, random, stamp, currentUrl) ==
    [id |-> NoteId(time, random),
     text |-> text,
     timestamp |-> stamp,
     url |-> currentUrl,
     position |-> position]

\* notes.filter(n => n.id !== noteId)
WithoutId(list, noteId) == SelectSeq(list, LAMBDA n : n.id # noteId)

RECURSIVE InsertDesc(_, _)
\* x put into a list sorted by descending timestamp, after its equals
InsertDesc(sorted, x) ==
    IF sorted = <<>> THEN <<x>>
    ELSE IF Head(sorted).timestamp >= x.timestamp
    THEN <<Head(sorted)>> \o InsertDesc(Tail(sorted), x)
    ELSE <<x>> \o sorted

RECURSIVE SortDesc(_, _)
SortDesc(done, rest) ==
    IF rest = <<>> THEN done ELSE SortDesc(InsertDesc(done, Head(rest)), Tail(rest))

\* renderNotes without the sort
renderNotesUnsorted(list) == list

\* renderNotes that also resets the timestamps of the notes it lists
renderNotesRestamped(list) ==
    [i \in DOMAIN list |-> [SortDesc(<<>>, list)[i] EXCEPT !.timestamp = 0]]

\* renderNotes(): notes.sort((a, b) => b.timestamp - a.timestamp) sorts
\* `notes` in place, newest first, equal timestamps in their old order
renderNotes(list) == SortDesc(<<>>, list)

(***************************************************************************)
(* Initial values of the three groups of variables.                        *)
(***************************************************************************)
Contexts == {"tab1", "tab2"}

Urls == {"/a", "/b"}

ClockStart == 10

\* `intervalId = null`: no timer id kept (setTimeout returns ids from 1 on)
NoTimer == 0

\* the module state of src/rsvp.js as declared, nothing extracted, no timer
\* set, the display showing 'Ready'
RsvpInit ==
    rsvp = [words |-> <<>>, currentIndex |-> 0, isPlaying |-> FALSE,
            intervalId |-> NoTimer, pending |-> {}, ids |-> 0,
            shown |-> "Ready", active |-> FALSE]

Absent == [kind |-> "absent"]

NoOp == [kind |-> "none"]

StoreInit ==
    /\ storage = Absent
    /\ url = [c \in Contexts |-> "/a"]
    /\ notes = [c \in Contexts |-> <<>>]
    /\ pc = [c \in Contexts |-> "idle"]
    /\ op = [c \in Contexts |-> NoOp]
    /\ clock = ClockStart
    /\ issued = <<>>
    /\ live = [u \in Urls |-> <<>>]
    /\ writers = {}
    /\ last = NoOp

NoDesc == [kind |-> "none"]

NotRun == [kind |-> "notrun"]

AnchorInit ==
    /\ dom \in Documents
    /\ sel = NoRange
    /\ desc = NoDesc
    /\ located = NotRun

JumpIdle ==
    /\ jnotes = <<>>
    /\ timers = <<>>
    /\ now = 0
    /\ jumps = 0
    /\ marks = <<>>

(***************************************************************************)
(* Spec: the note store.  Every context is a browser tab of the same       *)
(* origin; a tab runs a handler to completion, but the tabs are separate   *)
(* processes over one localStorage, so another tab's getItem or setItem    *)
(* may fall between the getItem and the setItem of saveNotes.  A handler   *)
(* that persists is therefore two steps: Begin... up to the value that     *)
(* saveNotes has computed, Finish from setItem to the handler's end.       *)
(***************************************************************************)
MaxNotes == 2

\* Date.now() takes two values, so that two notes can fall in the same
\* millisecond or in different ones
MaxClock == ClockStart + 1

\* the page that a pathname shows
PageOf(u) == IF u = "/a" THEN PagePlain ELSE PageDrift

\* the selections the user saves as notes: "ab" of "xaby", and " quick"
\* with the blank before it
StoreSelections == {MkRange(5, 1, 5, 3), MkRange(13, 3, 13, 9)}

\* the text the user saves on each page
SelectionsOn(u) == IF u = "/a" THEN {MkRange(5, 1, 5, 3)} ELSE {MkRange(13, 3, 13, 9)}

\* selections createNote turns down: none at all, a collapsed one, and the
\* blank between "the" and "quick"
EmptySelections == {NoRange, MkRange(5, 1, 5, 1), MkRange(13, 3, 13, 4)}

\* what createNote can be called with on a page
CreateInputs(u) == SelectionsOn(u) \cup EmptySelections

\* what createNote reads off a selection of a page: whether it passes the
\* tests, selection.toString().trim(), and getPositionInfo(range)
Selected ==
    [u \in Urls |->
        [r \in StoreSelections \cup EmptySelections |->
            IF Accepts(PageOf(u), r)
            THEN [ok |-> TRUE,
                  text |-> Trim(RangeText(PageOf(u), r)),
                  position |-> getPositionInfo(PageOf(u), r)]
            ELSE [ok |-> FALSE]]]

\* the tab opens or reloads a page: init() runs loadNotes() on an empty
\* `notes`, then renderNotes()
Load(c, u) ==
    /\ pc[c] = "idle"
    /\ url' = [url EXCEPT ![c] = u]
    /\ notes' = [notes EXCEPT ![c] = renderNotes(loadNotes(storage, u, <<>>))]
    /\ last' = [kind |-> "load", ctx |-> c]
    /\ UNCHANGED <<storage, pc, op, clock, issued, live, writers>>
    /\ UNCHANGED <<anchorVars, jumpVars, rsvp>>

\* "Save to Notes": createNote(selection) up to the value saveNotes() is
\* about to store.  Date.now() is read twice: `time` for the id, at or after
\* the last reading, and `stamp` for the timestamp, at or just after `time`.
BeginCreate(c, selection, time, random, stamp) ==
    /\ pc[c] = "idle"
    /\ Len(issued) < MaxNotes
    /\ Selected[url[c]][selection].ok
    /\ LET note == MakeNote(Selected[url[c]][selection].text,
                            Selected[url[c]][selection].position,
                            time, random, stamp, url[c])
           pushed == Append(notes[c], note)
       IN  /\ notes' = [notes EXCEPT ![c] = pushed]
           /\ op' = [op EXCEPT ![c] =
                        [kind |-> "create", id |-> note.id, selection |-> selection,
                         save |-> saveNotesRead(storage, url[c], pushed)]]
           /\ issued' = Append(issued, note.id)
           /\ live' = [live EXCEPT ![url[c]] = Append(@, note)]
    /\ clock' = stamp
    /\ pc' = [pc EXCEPT ![c] = "saving"]
    /\ writers' = writers \cup {c}
    /\ UNCHANGED <<storage, url, last>>
    /\ UNCHANGED <<anchorVars, jumpVars, rsvp>>

\* createNote(selection) that returns null at one of its tests
CreateNothing(c, selection) ==
    /\ pc[c] = "idle"
    /\ ~Selected[url[c]][selection].ok
    /\ last' = [kind |-> "null", ctx |-> c]
    /\ UNCHANGED <<storage, url, notes, pc, op, clock, issued, live, writers>>
    /\ UNCHANGED <<anchorVars, jumpVars, rsvp>>

\* the Delete button of a listed note: deleteNote(noteId) up to the value
\* saveNotes() is about to store
BeginDelete(c, noteId) ==
    /\ pc[c] = "idle"
    /\ LET kept == WithoutId(notes[c], noteId)
       IN  /\ notes' = [notes EXCEPT ![c] = kept]
           /\ op' = [op EXCEPT ![c] =
                        [kind |-> "delete", id |-> noteId,
                         save |-> saveNotesRead(storage, url[c], kept)]]
    /\ live' = [live EXCEPT ![url[c]] = WithoutId(@, noteId)]
    /\ pc' = [pc EXCEPT ![c] = "saving"]
    /\ writers' = writers \cup {c}
    /\ UNCHANGED <<storage, url, clock, issued, last>>
    /\ UNCHANGED <<anchorVars, jumpVars, rsvp>>

\* the rest of the handler: localStorage.setItem, then renderNotes().  An
\* exception that leaves saveNotes would end the handler before renderNotes.
Finish(c) ==
    /\ pc[c] = "saving"
    /\ LET wrote == op[c].save.write /\ ~SetItemThrows(storage)
           raised == ~wrote /\ ~op[c].save.caught
       IN  /\ storage' = IF wrote THEN op[c].save.value ELSE storage
           /\ notes' = [notes EXCEPT ![c] = IF raised THEN @ ELSE renderNotes(@)]
           /\ last' = [kind |-> IF wrote THEN "save"
                                ELSE IF raised THEN "raised" ELSE "failed",
                       ctx |-> c]
    /\ pc' = [pc EXCEPT ![c] = "idle"]
    /\ op' = [op EXCEPT ![c] = NoOp]
    /\ UNCHANGED <<url, clock, issued, live, writers>>
    /\ UNCHANGED <<anchorVars, jumpVars, rsvp>>

Next ==
    \/ \E c \in Contexts, u \in Urls : Load(c, u)
    \/ \E c \in Contexts, random \in RandomStrings, time \in clock..MaxClock :
          \E r \in CreateInputs(url[c]), stamp \in time..Min(time + 1, MaxClock) :
              BeginCreate(c, r, time, random, stamp)
    \/ \E c \in Contexts : \E i \in DOMAIN notes[c] : BeginDelete(c, notes[c][i].id)
    \/ \E c \in Contexts : Finish(c)

AnchorIdle ==
    /\ dom = PagePlain
    /\ sel = NoRange
    /\ desc = NoDesc
    /\ located = NotRun

Init == StoreInit /\ AnchorIdle /\ JumpIdle /\ RsvpInit

Spec == Init /\ [][Next]_vars

(***************************************************************************)
(* Claims about the note store                                             *)
(***************************************************************************)
\* the persisted collection as a list of notes
Stored == IF storage.kind = "list" THEN storage.items ELSE <<>>

\* how often x occurs in list s
Count(s, x) == Cardinality({i \in DOMAIN s : s[i] = x})

\* the two lists hold the same notes, each as often
SameBag(s, t) ==
    /\ Len(s) = Len(t)
    /\ \A i \in DOMAIN s : Count(s, s[i]) = Count(t, s[i])

\* the list `after` is the list `before` without exactly one entry, whose id
\* is noteId
RemovesOne(before, after, noteId) ==
    \E i \in DOMAIN before :
        /\ before[i].id = noteId
        /\ after = SubSeq(before, 1, i - 1) \o SubSeq(before, i + 1, Len(before))

\* C1 (as claimed): partition integrity.  The setItem of a persist issued
\* by a context on document A leaves the sub-sequence of persisted entries
\* of every other document as it was before the write.
C1_PartitionIntegrity ==
    [][\A c \in Contexts :
          (pc[c] = "saving" /\ pc'[c] = "idle" /\ op[c].save.write)
              => NotOfUrl(IF storage'.kind = "list" THEN storage'.items ELSE <<>>,
                          url[c])
                    = NotOfUrl(Stored, url[c])]_vars

\* C2 (as claimed): deletion exactness.  deleteNote(id) takes exactly one
\* entry, the one with that id, out of the in-memory list, and its persist
\* takes exactly that entry out of the persisted notes of the document.
C2_DeletionExact ==
    [][\A c \in Contexts :
          /\ (pc[c] = "idle" /\ pc'[c] = "saving" /\ op'[c].kind = "delete")
                => RemovesOne(notes[c], notes'[c], op'[c].id)
          /\ (pc[c] = "saving" /\ pc'[c] = "idle" /\ op[c].kind = "delete")
                => RemovesOne(OfUrl(Stored, url[c]),
                              OfUrl(IF storage'.kind = "list" THEN storage'.items
                                    ELSE <<>>, url[c]),
                              op[c].id)]_vars

\* C3 (as claimed): uniqueness.  The ids createNote has generated are
\* pairwise distinct, also for calls within the same clock instant.
C3_UniqueIds ==
    \A i, j \in DOMAIN issued : i # j => issued[i] # issued[j]

\* C5: cross-document isolation.  Every note of a context's in-memory list
\* has the url of the page the context shows.
C5_Isolation ==
    \A c \in Contexts : \A i \in DOMAIN notes[c] : notes[c][i].url = url[c]

\* C5 witness: a tab that has loaded "/b" lists a note, while the storage
\* also holds a note of "/a".
C5_Witness ==
    \E c \in Contexts :
        /\ last = [kind |-> "load", ctx |-> c]
        /\ url[c] = "/b"
        /\ notes[c] # <<>>
        /\ \E i \in DOMAIN Stored : Stored[i].url = "/a"

C9_LastWriterWins ==
    \A c \in Contexts :
        (last = [kind |-> "save", ctx |-> c] /\ pc[c] = "idle")
            => SameBag(OfUrl(Stored, url[c]), notes[c])

\* C9 witness: both tabs show the same document and have both persisted; the
\* tab that wrote last has overwritten a note the other tab still lists.
C9_Witness ==
    \E c, e \in Contexts :
        /\ c # e
        /\ url[c] = url[e]
        /\ writers = {c, e}
        /\ pc[c] = "idle" /\ pc[e] = "idle"
        /\ last = [kind |-> "save", ctx |-> c]
        /\ \E i \in DOMAIN notes[e] : Count(Stored, notes[e][i]) = 0

\* C25 (as claimed): in a single context with working storage, after every
\* completed createNote or deleteNote the persisted entries of the page the
\* context shows are exactly its in-memory notes: the same notes, each once,
\* and no id twice.
C25_MemoryIsStorage ==
    \A c \in Contexts :
        (/\ writers = {c}
         /\ pc[c] = "idle"
         /\ last.kind \in {"save", "failed", "raised"})
            => /\ SameBag(OfUrl(Stored, url[c]), notes[c])
               /\ \A i, j \in DOMAIN OfUrl(Stored, url[c]) :
                     i # j => OfUrl(Stored, url[c])[i].id # OfUrl(Stored, url[c])[j].id

\* the ids of the notes of a list
IdsOf(list) == {list[i].id : i \in DOMAIN list}

\* the one note with this id was created and deleted, and the persisted
\* collection does not hold it
Gone(id) ==
    /\ Count(issued, id) = 1
    /\ \A u \in Urls : id \notin IdsOf(live[u])
    /\ id \notin IdsOf(Stored)

\* C26 (as claimed): a deleted note never reappears.  Once deleteNote has
\* taken a note out of the persisted collection, no setItem of a context
\* that shows the note's document puts an entry with its id back into the
\* persisted collection.
C26_NoReappearance ==
    [][\A c \in Contexts :
          (pc[c] = "saving" /\ pc'[c] = "idle" /\ storage'.kind = "list")
              => \A k \in DOMAIN storage'.items :
                    storage'.items[k].url = url[c] => ~Gone(storage'.items[k].id)]_vars

\* C15: create.  createNote on a selection that is not collapsed and not
\* blank makes a note whose text is the trimmed selected text, whose url is
\* the page's path and whose position is not empty; the note is appended to
\* the in-memory list, and the setItem of the same call stores it.
C15_Create ==
    [][\A c \in Contexts :
          /\ (pc[c] = "idle" /\ pc'[c] = "saving" /\ op'[c].kind = "create")
                => LET note == notes'[c][Len(notes'[c])]
                   IN  /\ notes'[c] = Append(notes[c], note)
                       /\ note.id = op'[c].id
                       /\ note.text = Trim(RangeText(PageOf(url[c]), op'[c].selection))
                       /\ note.text # <<>>
                       /\ note.url = url[c]
                       /\ note.position.startXPath # <<>>
                       /\ note.position.endXPath # <<>>
          /\ (pc[c] = "saving" /\ pc'[c] = "idle" /\ op[c].kind = "create")
                => \E i \in DOMAIN notes'[c] :
                      /\ notes'[c][i].id = op[c].id
                      /\ storage'.kind = "list"
                      /\ Count(storage'.items, notes'[c][i]) > 0]_vars

\* C15 witness: the selection " quick" on page "/b" has become a stored
\* note with the text "quick".
C15_Witness ==
    \E c \in Contexts :
        /\ last = [kind |-> "save", ctx |-> c]
        /\ url[c] = "/b"
        /\ \E i \in DOMAIN notes[c] :
              /\ notes[c][i].text = <<"q", "u", "i", "c", "k">>
              /\ notes[c][i].position.startOffset = 3
              /\ Count(Stored, notes[c][i]) > 0

\* C16: the list is ordered by timestamp, newest first.  Whenever a tab is
\* between two handlers, each listed note's timestamp is at least that of
\* the note listed after it.
C16_ListOrder ==
    \A c \in Contexts :
        pc[c] = "idle"
            => \A i \in 1..(Len(notes[c]) - 1) :
                  notes[c][i].timestamp >= notes[c][i + 1].timestamp

\* C16 witness: a tab lists a newer note before an older one, while the
\* storage holds the older one first.
C16_Witness ==
    \E c \in Contexts :
        /\ pc[c] = "idle"
        /\ Len(notes[c]) = 2
        /\ notes[c][1].timestamp > notes[c][2].timestamp
        /\ Len(Stored) = 2
        /\ Stored[1].timestamp < Stored[2].timestamp

\* the notes held in the tabs' lists mem and in the stored value st
NotesHeld(mem, st) ==
    UNION {{mem[c][i] : i \in DOMAIN mem[c]} : c \in Contexts}
        \cup (IF st.kind = "list" THEN {st.items[i] : i \in DOMAIN st.items} ELSE {})

\* the notes in the values that running saveNotes calls are about to store
NotesInFlight ==
    UNION {{op[c].save.value.items[i] : i \in DOMAIN op[c].save.value.items} :
              c \in {e \in Contexts : pc[e] = "saving" /\ op[e].save.write}}

\* C20: notes are immutable.  Every note held in memory or in the storage
\* after a step was held, with the same id, text, timestamp, url and
\* position, before the step (in memory, in the storage or in the value a
\* running saveNotes is about to store), or is the note createNote made in
\* the step; so every note held has the values of its creation.
C20_Immutable ==
    [][\A n \in NotesHeld(notes', storage') :
          \/ n \in NotesHeld(notes, storage) \cup NotesInFlight
          \/ \E c \in Contexts :
                /\ pc[c] = "idle" /\ pc'[c] = "saving" /\ op'[c].kind = "create"
                /\ n = notes'[c][Len(notes'[c])]
                /\ n.id = op'[c].id
                /\ \E u \in Urls : \E i \in DOMAIN live'[u] : n = live'[u][i]]_vars

\* C20 witness: a tab that has written nothing has loaded two notes another
\* tab created and stored, and lists them in a new order.
C20_Witness ==
    \E c \in Contexts :
        /\ last = [kind |-> "load", ctx |-> c]
        /\ c \notin writers
        /\ Len(notes[c]) = 2
        /\ notes[c][1].timestamp > notes[c][2].timestamp
        /\ \A i \in DOMAIN notes[c] : Count(live[url[c]], notes[c][i]) > 0

\* the selection is missing, collapsed, or blank after trimming
IsEmptySelection(d, selection) ==
    \/ selection = NoRange
    \/ Collapsed(selection)
    \/ Trim(RangeText(d, selection)) = <<>>

\* C14: empty selection.  createNote with no selection, a collapsed
\* selection or a selection that is blank after trimming returns null,
\* makes no note and leaves the in-memory list and the storage as they are:
\* no note is ever made of such a selection, and the call that returns null
\* changes neither the list nor the storage.
C14_EmptySelection ==
    [][\A c \in Contexts :
          /\ (pc[c] = "idle" /\ pc'[c] = "saving" /\ op'[c].kind = "create")
                => ~IsEmptySelection(PageOf(url[c]), op'[c].selection)
          /\ (last' = [kind |-> "null", ctx |-> c] /\ last' # last)
                => /\ notes' = notes
                   /\ storage' = storage
                   /\ issued' = issued]_vars

\* C14 witness: createNote has returned null in a tab that lists a note
\* while the storage holds one.
C14_Witness ==
    \E c \in Contexts :
        /\ last = [kind |-> "null", ctx |-> c]
        /\ notes[c] # <<>>
        /\ Stored # <<>>

(***************************************************************************)
(* FaultSpec: the note store over a storage that starts out missing,       *)
(* damaged, inaccessible or full.                                          *)
(***************************************************************************)
\* a stored entry that is no note: {"id":"x","timestamp":0,"url":"/a"}
JunkOfPage == [id |-> <<"x">>, timestamp |-> 0, url |-> "/a"]

\* a stored entry that is no note and names no page of the site:
\* {"id":"x","timestamp":0,"url":""}
JunkOfNoPage == [id |-> <<"x">>, timestamp |-> 0, url |-> ""]

\* what the storage can hold or be when the first tab opens: nothing, text
\* that does not parse, a value that parses but cannot be filtered, lists of
\* entries that are no notes, no access at all, no room for a write
FaultyStores ==
    {Absent, [kind |-> "corrupt"], [kind |-> "notlist"],
     JSONstringify(<<JunkOfPage>>), JSONstringify(<<JunkOfNoPage>>),
     [kind |-> "unavailable"], [kind |-> "full"]}

FaultStart ==
    /\ storage \in FaultyStores
    /\ url = [c \in Contexts |-> "/a"]
    /\ notes = [c \in Contexts |-> <<>>]
    /\ pc = [c \in Contexts |-> "idle"]
    /\ op = [c \in Contexts |-> NoOp]
    /\ clock = ClockStart
    /\ issued = <<>>
    /\ live = [u \in Urls |-> <<>>]
    /\ writers = {}
    /\ last = NoOp
    /\ AnchorIdle
    /\ JumpIdle
    /\ RsvpInit

\* the handlers of one tab: a faulty storage is a matter of one session
FaultNext ==
    \/ \E u \in Urls : Load("tab1", u)
    \/ \E random \in RandomStrings, time \in clock..MaxClock :
          \E r \in CreateInputs(url["tab1"]), stamp \in time..Min(time + 1, MaxClock) :
              BeginCreate("tab1", r, time, random, stamp)
    \/ \E r \in CreateInputs(url["tab1"]) : CreateNothing("tab1", r)
    \/ \E i \in DOMAIN notes["tab1"] : BeginDelete("tab1", notes["tab1"][i].id)
    \/ Finish("tab1")

FaultSpec == FaultStart /\ [][FaultNext]_vars

(***************************************************************************)
(* Claims about the note store over a faulty storage                       *)
(***************************************************************************)
\* the fields of a note
NoteFields == {"id", "text", "timestamp", "url", "position"}

\* the stored value is missing, does not parse, or parses to something that
\* is not a list of notes
MissingOrCorrupt(stored) ==
    \/ stored.kind \in {"absent", "full", "corrupt", "notlist"}
    \/ /\ stored.kind = "list"
       /\ \E i \in DOMAIN stored.items : DOMAIN stored.items[i] # NoteFields

\* C12 (as claimed): load tolerates a missing or corrupt persisted value.
\* After loadNotes has read a value that is missing, does not parse, or is
\* not a list of notes, the in-memory list is empty.
C12_LoadTolerates ==
    \A c \in Contexts :
        (/\ last = [kind |-> "load", ctx |-> c]
         /\ pc[c] = "idle"
         /\ MissingOrCorrupt(storage))
            => notes[c] = <<>>

\* C13: best-effort persistence.  When the read or the write of saveNotes
\* fails during createNote or deleteNote, no exception leaves the handler,
\* the in-memory list keeps the mutation (the created note is listed, the
\* deleted id is not), and the tab is ready for the next operation.
C13_BestEffort ==
    [][\A c \in Contexts :
          (pc[c] = "saving" /\ pc'[c] = "idle" /\ last'.kind # "save")
              => /\ last' = [kind |-> "failed", ctx |-> c]
                 /\ SameBag(notes'[c], notes[c])
                 /\ op[c].kind = "create"
                       => \E i \in DOMAIN notes'[c] : notes'[c][i].id = op[c].id
                 /\ op[c].kind = "delete"
                       => \A i \in DOMAIN notes'[c] : notes'[c][i].id # op[c].id]_vars

\* C13 witness: on a storage that fails, a tab has created two notes and
\* deleted one; the last save failed and the tab lists the other note.
C13_Witness ==
    \E c \in Contexts :
        /\ last = [kind |-> "failed", ctx |-> c]
        /\ SetItemThrows(storage) \/ SaveReadThrows(storage)
        /\ Len(issued) = 2
        /\ Len(live["/a"]) + Len(live["/b"]) = 1
        /\ Len(notes[c]) = 1
        /\ SameBag(notes[c], live[url[c]])

\* C27 (as claimed): when the stored value does not parse, a createNote of
\* a session that began with the empty list makes its note durable: after
\* the call the stored value is a list that holds the note, and loadNotes
\* lists the note.
C27_DurableAfterCorrupt ==
    [][\A c \in Contexts :
          (/\ pc[c] = "saving" /\ pc'[c] = "idle"
           /\ op[c].kind = "create"
           /\ storage.kind = "corrupt")
              => /\ storage'.kind = "list"
                 /\ op[c].id \in IdsOf(loadNotes(storage', url[c], <<>>))]_vars

(***************************************************************************)
(* AnchorSpec: a selection is made on the document, createNote encodes it, *)
(* the page may be edited, and locateNote resolves the stored descriptor.  *)
(***************************************************************************)
\* the text nodes and elements of the document: what a selection can end in
NodesOf(d) == {n \in DOMAIN d.tag : InDocument(d, n) /\ n # DocumentNode}

\* every range the selection can be: its start is not after its end
Ranges(d) ==
    {MkRange(sn, so, en, eo) :
        <<sn, so, en, eo>> \in
            {q \in UNION {{<<a, i, b, j>> : i \in 0..NodeLength(d, a),
                                             j \in 0..NodeLength(d, b)} :
                          <<a, b>> \in NodesOf(d) \X NodesOf(d)} :
                Position(d, q[1], q[2], q[3], q[4]) # "after"}}

\* the user selects text on the page
Select ==
    /\ sel = NoRange
    /\ \E r \in Ranges(dom) : sel' = r
    /\ UNCHANGED <<dom, desc, located>>
    /\ UNCHANGED <<storeVars, jumpVars, rsvp>>

\* createNote(selection) up to the note's text and position
Encode ==
    /\ desc = NoDesc
    /\ Accepts(dom, sel)
    /\ desc' = [kind |-> "note",
                text |-> Trim(RangeText(dom, sel)),
                position |-> getPositionInfo(dom, sel),
                on |-> dom]
    /\ UNCHANGED <<dom, sel, located>>
    /\ UNCHANGED <<storeVars, jumpVars, rsvp>>

\* the page is edited between two visits
Edit ==
    /\ desc # NoDesc
    /\ \E d \in Documents \ {dom} : dom' = d
    /\ located' = NotRun
    /\ UNCHANGED <<sel, desc>>
    /\ UNCHANGED <<storeVars, jumpVars, rsvp>>

\* locateNote(note)
Resolve ==
    /\ desc # NoDesc
    /\ located = NotRun
    /\ located' = locateNote(dom, desc.position)
    /\ UNCHANGED <<dom, sel, desc>>
    /\ UNCHANGED <<storeVars, jumpVars, rsvp>>

AnchorNext == Select \/ Encode \/ Edit \/ Resolve

AnchorStart == StoreInit /\ AnchorInit /\ JumpIdle /\ RsvpInit

AnchorSpec == AnchorStart /\ [][AnchorNext]_vars

(***************************************************************************)
(* Claims about the anchor codec and resolver                              *)
(***************************************************************************)
\* C4 (as claimed): round trip.  On the unmodified document, locateNote
\* applied to the descriptor getPositionInfo made of a selection returns a
\* range whose trimmed text is the selection's trimmed text.
C4_RoundTrip ==
    (located # NotRun /\ desc # NoDesc /\ dom = desc.on)
        => /\ located.kind = "range"
           /\ Trim(RangeText(dom, located)) = desc.text

\* the conditions under which locateNote has nothing to return
Unresolvable(d, position) ==
    LET startNode == getNodeByXPath(d, position.startXPath)
        endNode == getNodeByXPath(d, position.endXPath)
        startTextNode == findTextNode(d, startNode, position.startText)
        endTextNode == findTextNode(d, endNode, position.endText)
    IN  \/ startNode = Null
        \/ endNode = Null
        \/ startTextNode = Null
        \/ endTextNode = Null
        \/ position.startOffset > Len(d.data[startTextNode])
        \/ position.endOffset > Len(d.data[endTextNode])

\* C10: locateNote never throws past its boundary.  It returns null when the
\* start or end element or text node cannot be resolved or when setStart or
\* setEnd rejects the stored offset, and it returns a range otherwise.
C10_LocateNeverThrows ==
    located # NotRun
        => /\ located.kind \in {"range", "null"}
           /\ (located = NotFound) <=> Unresolvable(dom, desc.position)

\* C10 witness: a stored offset exceeds the resolved text node, the range
\* construction was rejected, and locateNote returned null.
C10_Witness ==
    /\ located = NotFound
    /\ locateNoteTry(dom, desc.position) = Thrown

\* the test of findTextNode's loop: the text node holds the context snippet
HoldsSnippet(d, node, contextText) ==
    IF Len(contextText) > SnippetShortMax
    THEN Includes(d.data[node],
                  Substring(contextText, SnippetTrim, Len(contextText) - SnippetTrim))
    ELSE Includes(d.data[node], contextText)

\* C11 (as claimed): drift.  A note is anchored in the text of a paragraph;
\* a new paragraph is then inserted before it.  locateNote either returns
\* null or a range in text nodes that hold the stored context snippets.
C11_DriftOutcomes ==
    (/\ located # NotRun
     /\ desc # NoDesc
     /\ desc.on = PagePlain
     /\ dom = PageDrift
     /\ IsText(PagePlain, sel.startContainer)
     /\ IsText(PagePlain, sel.endContainer))
        => \/ located = NotFound
           \/ /\ located.kind = "range"
              /\ HoldsSnippet(dom, located.startContainer, desc.position.startText)
              /\ HoldsSnippet(dom, located.endContainer, desc.position.endText)

\* C23 (as claimed): path round trip.  On a document that is not changed
\* in between, getNodeByXPath applied to the path getXPath gives for an
\* element returns that element, for every element of the document.
C23_PathRoundTrip ==
    \A e \in {n \in DOMAIN dom.tag : IsElement(dom, n) /\ InDocument(dom, n)} :
        getNodeByXPath(dom, getXPath(dom, e)) = e

\* the elements of the document
ElementsOf(d) == {n \in DOMAIN d.tag : IsElement(d, n) /\ InDocument(d, n)}

\* the text nodes below element e
TextUnder(d, e) == {n \in DOMAIN d.tag : IsText(d, n) /\ IsAncestor(d, e, n)}

\* the text nodes below e that match the snippet
Candidates(d, e, contextText) ==
    {n \in TextUnder(d, e) : HoldsSnippet(d, n, contextText)}

\* the node of a set that comes first in document order
FirstOf(d, ns) == CHOOSE n \in ns : \A m \in ns : DocPos(d, n) <= DocPos(d, m)

\* the two snippets of the stored descriptor
Snippets == {desc.position.startText, desc.position.endText}

\* C21: match rule and first-match policy of findTextNode.  For every
\* element of the page and both stored snippets: when some text node below
\* the element contains the snippet (whole if it has at most 20 characters,
\* without its outer 10 characters on each side if it is longer),
\* findTextNode returns the first such node in document order.
C21_FirstMatch ==
    desc # NoDesc
        => \A e \in ElementsOf(dom) : \A s \in Snippets :
              Candidates(dom, e, s) # {}
                  => findTextNode(dom, e, s) = FirstOf(dom, Candidates(dom, e, s))

\* C21 witness: locateNote has run with a start snippet of more than 20
\* characters that two text nodes of the start element match, and the range
\* begins in the first of them, which is not the element's only text node.
C21_Witness ==
    /\ desc # NoDesc
    /\ located # NotRun
    /\ located.kind = "range"
    /\ LET e == getNodeByXPath(dom, desc.position.startXPath)
           s == desc.position.startText
       IN  /\ e # Null
           /\ Len(s) > SnippetShortMax
           /\ Cardinality(Candidates(dom, e, s)) >= 2
           /\ located.startContainer = FirstOf(dom, Candidates(dom, e, s))

\* C22: fallback of findTextNode.  When no text node below the element
\* matches the snippet, findTextNode returns the first text node below the
\* element in document order; it returns null only when the element has no
\* text node below it.
C22_Fallback ==
    desc # NoDesc
        => \A e \in ElementsOf(dom) : \A s \in Snippets :
              /\ (Candidates(dom, e, s) = {} /\ TextUnder(dom, e) # {})
                    => findTextNode(dom, e, s) = FirstOf(dom, TextUnder(dom, e))
              /\ findTextNode(dom, e, s) = Null <=> TextUnder(dom, e) = {}

\* C22 witness: locateNote has run on an edited page where no text node of
\* the start element matches the stored snippet, and the range begins in
\* the element's first text node.
C22_Witness ==
    /\ desc # NoDesc
    /\ located # NotRun
    /\ located.kind = "range"
    /\ LET e == getNodeByXPath(dom, desc.position.startXPath)
           s == desc.position.startText
       IN  /\ e # Null
           /\ Candidates(dom, e, s) = {}
           /\ located.startContainer = FirstOf(dom, TextUnder(dom, e))

\* C24: getContextText.  For a text node of length L and an offset o the
\* snippet is the characters at positions max(0, o - 20) up to, but not
\* including, min(L, o + 20) of the node's text, and nothing of any other
\* node.
C24_ContextWindow ==
    (desc # NoDesc /\ IsText(desc.on, sel.startContainer))
        => LET text == desc.on.data[sel.startContainer]
               o == sel.startOffset
               from == IF o - ContextRadius < 0 THEN 0 ELSE o - ContextRadius
               to == IF o + ContextRadius > Len(text) THEN Len(text) ELSE o + ContextRadius
           IN  /\ desc.position.startText = [i \in 1..(to - from) |-> text[from + i]]
               /\ Len(desc.position.startText) <= 2 * ContextRadius

\* C24 witness: a descriptor was made of a selection that begins more than
\* 20 characters into a text node and fewer than 20 before its end, so the
\* snippet is clipped at the end of the text and not at its beginning.
C24_Witness ==
    /\ desc # NoDesc
    /\ IsText(desc.on, sel.startContainer)
    /\ sel.startOffset > ContextRadius
    /\ sel.startOffset + ContextRadius > Len(desc.on.data[sel.startContainer])
    /\ Len(desc.position.startText) = Len(desc.on.data[sel.startContainer])
                                          - (sel.startOffset - ContextRadius)

(***************************************************************************)
(* JumpSpec: jumpToNote and its timers, in one tab on PagePlain.  Time is  *)
(* counted in milliseconds and passes in steps of the shorter delay.  A    *)
(* timer callback runs when its delay has passed, timers of a smaller due  *)
(* time first; two timers of the same kind and due time run in the order   *)
(* they were set.                                                          *)
(***************************************************************************)
MaxJumps == 3

MaxTime == 4000

\* setTimeout(..., 500)
HighlightDelay == 500

\* setTimeout(..., 3000)
ExpireDelay == 3000

\* the selections behind the notes of the tab: "ab" of "xaby", "quick", and
\* "y" + "c" that begins in a paragraph's text and ends inside its <b>
JumpSelections == <<MkRange(5, 1, 5, 3), MkRange(13, 4, 13, 9), MkRange(5, 3, 7, 1)>>

\* the notes createNote made of them, one per millisecond
JumpNotes ==
    [i \in DOMAIN JumpSelections |->
        MakeNote(Trim(RangeText(PagePlain, JumpSelections[i])),
                 getPositionInfo(PagePlain, JumpSelections[i]),
                 ClockStart + i, <<"0", ".", "5">>, ClockStart + i, "/a")]

\* the live ranges the pending callbacks hold, by place in `timers`
HeldRanges ==
    [i \in DOMAIN timers |->
        IF timers[i].kind = "highlight" THEN timers[i].range
        ELSE MkRange(DocumentNode, 0, DocumentNode, 0)]

\* `timers` without its k-th entry, the held ranges being rs
Remaining(k, rs) ==
    LET moved == [i \in DOMAIN timers |->
                     IF timers[i].kind = "highlight"
                     THEN [timers[i] EXCEPT !.range = rs[i]]
                     ELSE timers[i]]
    IN  SubSeq(moved, 1, k - 1) \o SubSeq(moved, k + 1, Len(moved))

\* the k-th timer is the one whose callback runs next
Ready(k) ==
    /\ timers[k].due <= now
    /\ \A j \in DOMAIN timers \ {k} :
          \/ timers[j].due > timers[k].due
          \/ /\ timers[j].due = timers[k].due
             /\ (timers[j].kind # timers[k].kind \/ j > k)

\* jumpToNote(noteId) for the i-th note of the list
Jump(i) ==
    /\ jumps < MaxJumps
    /\ now <= MaxTime
    /\ LET cleared == ClearActive(dom)
           range == locateNote(cleared, jnotes[i].position)
       IN  /\ dom' = cleared
           /\ timers' = IF range = NotFound THEN timers
                        ELSE Append(timers, [kind |-> "highlight", jump |-> jumps + 1,
                                             due |-> now + HighlightDelay,
                                             range |-> range])
    /\ jumps' = jumps + 1
    /\ UNCHANGED <<jnotes, now, marks>>
    /\ UNCHANGED <<sel, desc, located>>
    /\ UNCHANGED <<storeVars, rsvp>>

\* a callback of setTimeout(..., 500) that sets no second timer
FireHighlightOnly(k) ==
    /\ timers[k].kind = "highlight"
    /\ Ready(k)
    /\ \E done \in {highlightRange([d |-> dom, rs |-> HeldRanges], k, TRUE)} :
           /\ dom' = done.w.d
           /\ timers' = Remaining(k, done.w.rs)
           /\ marks' = IF done.ok
                       THEN Append(marks, [node |-> Len(dom.tag) + 1,
                                           jump |-> timers[k].jump])
                       ELSE marks
    /\ UNCHANGED <<jnotes, now, jumps>>
    /\ UNCHANGED <<sel, desc, located>>
    /\ UNCHANGED <<storeVars, rsvp>>

\* the callback of setTimeout(..., 500): highlightRange(range, true), then
\* the second timer is set
FireHighlight(k) ==
    /\ timers[k].kind = "highlight"
    /\ Ready(k)
    /\ \E done \in {highlightRange([d |-> dom, rs |-> HeldRanges], k, TRUE)} :
           /\ dom' = done.w.d
           /\ timers' = Append(Remaining(k, done.w.rs),
                               [kind |-> "expire", jump |-> timers[k].jump,
                                due |-> now + ExpireDelay])
           /\ marks' = IF done.ok
                       THEN Append(marks, [node |-> Len(dom.tag) + 1,
                                           jump |-> timers[k].jump])
                       ELSE marks
    /\ UNCHANGED <<jnotes, now, jumps>>
    /\ UNCHANGED <<sel, desc, located>>
    /\ UNCHANGED <<storeVars, rsvp>>

\* the callback of setTimeout(..., 3000)
FireExpire(k) ==
    /\ timers[k].kind = "expire"
    /\ Ready(k)
    /\ dom' = ClearActive(dom)
    /\ timers' = Remaining(k, HeldRanges)
    /\ UNCHANGED <<jnotes, now, jumps, marks>>
    /\ UNCHANGED <<sel, desc, located>>
    /\ UNCHANGED <<storeVars, rsvp>>

\* time passes with no callback due
Pass ==
    /\ \A k \in DOMAIN timers : timers[k].due > now
    /\ timers # <<>> \/ (jumps < MaxJumps /\ now < MaxTime)
    /\ now' = now + HighlightDelay
    /\ UNCHANGED <<jnotes, timers, jumps, marks>>
    /\ UNCHANGED anchorVars
    /\ UNCHANGED <<storeVars, rsvp>>

JumpNext ==
    \/ \E i \in DOMAIN jnotes : Jump(i)
    \/ \E k \in DOMAIN timers : FireHighlight(k)
    \/ \E k \in DOMAIN timers : FireExpire(k)
    \/ Pass

JumpStart ==
    /\ StoreInit
    /\ dom = PagePlain
    /\ sel = NoRange
    /\ desc = NoDesc
    /\ located = NotRun
    /\ jnotes = JumpNotes
    /\ timers = <<>>
    /\ now = 0
    /\ jumps = 0
    /\ marks = <<>>
    /\ RsvpInit

JumpSpec == JumpStart /\ [][JumpNext]_vars

\* a callback of setTimeout(..., 500) is due: FireHighlight can happen, and
\* it changes `timers` when it does
HighlightDue == \E k \in DOMAIN timers : timers[k].kind = "highlight" /\ Ready(k)

\* the event loop runs every callback that is due, and time goes on: weak
\* fairness of the two callbacks and of Pass.  That of FireHighlight is
\* written out, HighlightDue being what enables it.
FairJumpSpec ==
    /\ JumpStart
    /\ [][JumpNext]_vars
    /\ ([]<>~HighlightDue \/ []<><<\E k \in DOMAIN timers : FireHighlight(k)>>_vars)
    /\ WF_vars(\E k \in DOMAIN timers : FireExpire(k))
    /\ WF_vars(Pass)

(***************************************************************************)
(* Claims about the highlight controller                                   *)
(***************************************************************************)
\* C7 (as claimed): at every observable instant at most one element of the
\* document carries the Active marker, whatever the interleaving of jump
\* requests and timer expirations.
C7_AtMostOneActive == Cardinality(ActiveElements(dom)) <= 1

\* the jump whose callback put wrapper n into the document
JumpOf(n) ==
    LET i == CHOOSE i \in DOMAIN marks : marks[i].node = n IN marks[i].jump

\* C8 (as claimed): latest jump wins.  Whenever an Active marker is present
\* it belongs to the most recently issued jump request, never to an older one.
C8_LatestJumpWins == \A n \in ActiveElements(dom) : JumpOf(n) = jumps

\* a callback of the given kind is pending for jump j
Pending(ts, kind, j) == \E i \in DOMAIN ts : ts[i].kind = kind /\ ts[i].jump = j

\* no callback is pending and no element carries the Active marker
Idle == timers = <<>> /\ ActiveElements(dom) = {}

\* the stages of every jump come in the order scroll, highlight, un-highlight
StagesInOrder ==
    \A j \in 1..jumps' :
        /\ (Pending(timers', "highlight", j) /\ ~Pending(timers, "highlight", j))
              => (jumps = j - 1 /\ jumps' = j)
        /\ (Pending(timers, "highlight", j) /\ ~Pending(timers', "highlight", j))
              => (Pending(timers', "expire", j) /\ now' = now)
        /\ (Pending(timers', "expire", j) /\ ~Pending(timers, "expire", j))
              => (Pending(timers, "highlight", j) /\ ~Pending(timers', "highlight", j))
        /\ (Pending(timers, "expire", j) /\ ~Pending(timers', "expire", j))
              => ActiveElements(dom') = {}
        /\ marks' # marks
              => \E i \in 1..jumps : Pending(timers, "highlight", i)
                                        /\ ~Pending(timers', "highlight", i)

\* C19: transient highlight sequencing.  Every jump that finds its range
\* runs scroll, highlight, un-highlight in that order, the second timer
\* being set whenever the first fires; and when callbacks that are due do
\* run and no more jumps come, the controller ends up Idle for good, no
\* element carrying the Active marker.
C19_Sequencing == [][StagesInOrder]_vars /\ <>[]Idle

\* C19 witness: a jump has gone through its three stages: its wrapper is in
\* the document, no callback is pending and nothing is Active.
C19_Witness ==
    /\ jumps >= 1
    /\ marks # <<>>
    /\ Idle
    /\ now >= HighlightDelay + ExpireDelay

\* the 3000 ms timer of jump j is pending and not yet due
ExpiryAhead(j) ==
    \E i \in DOMAIN timers :
        timers[i].kind = "expire" /\ timers[i].jump = j /\ timers[i].due > now

\* C29 (as claimed): an earlier jump's timer never cuts a later jump's
\* highlight short.  A wrapper that is Active, and whose own jump's 3000 ms
\* timer is not yet due, stays Active in every step other than a newer
\* jumpToNote.
C29_OwnExpiryOnly ==
    [][\A n \in ActiveElements(dom) :
          (ExpiryAhead(JumpOf(n)) /\ n \notin ActiveElements(dom'))
              => jumps' = jumps + 1]_vars

\* element.textContent
TextContent(d, e) ==
    LET ts == TextNodesUnder(d, e) IN Concat([i \in DOMAIN ts |-> d.data[ts[i]]])

\* one jumpToNote has run its full cycle, for the i-th note, and nothing
\* else has touched the page: its wrapper is in, around the note's text,
\* and the Active marker is off again
CycleDone(i) ==
    /\ jumps = 1
    /\ timers = <<>>
    /\ Len(marks) = 1
    /\ ActiveElements(dom) = {}
    /\ Trim(TextContent(dom, marks[1].node)) = jnotes[i].text

\* C28 (as claimed): relocation is repeatable.  After one jumpToNote(id) has
\* run its full cycle on the page, locateNote of a second jumpToNote(id)
\* for the same note returns a range, and the range has the note's text.
C28_RelocateAgain ==
    \A i \in DOMAIN jnotes :
        CycleDone(i)
            => /\ locateNote(dom, jnotes[i].position) # NotFound
               /\ Trim(RangeText(dom, locateNote(dom, jnotes[i].position)))
                     = jnotes[i].text

(***************************************************************************)
(* MarkSpec: highlightRange applied, more than once, to one range of       *)
(* PagePlain whose boundary points are in text nodes, as the ranges of     *)
(* locateNote are.  `sel` is the range object, `jumps` counts the calls,   *)
(* `marks` lists the wrappers that went in.                                *)
(***************************************************************************)
MaxMarks == 2

\* the ranges highlightRange is given: not collapsed, both ends in text
MarkRanges ==
    {r \in Ranges(PagePlain) :
        /\ IsText(PagePlain, r.startContainer)
        /\ IsText(PagePlain, r.endContainer)
        /\ ~Collapsed(r)}

\* a range is made
Pick ==
    /\ sel = NoRange
    /\ \E r \in MarkRanges : sel' = r
    /\ UNCHANGED <<dom, desc, located>>
    /\ UNCHANGED <<storeVars, jumpVars, rsvp>>

\* highlightRange(range, active)
Mark(active) ==
    /\ sel # NoRange
    /\ jumps < MaxMarks
    /\ \E done \in {highlightRange([d |-> dom, rs |-> <<sel>>], 1, active)} :
           /\ dom' = done.w.d
           /\ sel' = done.w.rs[1]
           /\ marks' = IF done.ok
                       THEN Append(marks, [node |-> Len(dom.tag) + 1, jump |-> jumps + 1])
                       ELSE marks
    /\ jumps' = jumps + 1
    /\ UNCHANGED <<jnotes, timers, now>>
    /\ UNCHANGED <<desc, located>>
    /\ UNCHANGED <<storeVars, rsvp>>

MarkNext == Pick \/ \E active \in BOOLEAN : Mark(active)

MarkStart ==
    /\ StoreInit
    /\ AnchorIdle
    /\ JumpIdle
    /\ RsvpInit

MarkSpec == MarkStart /\ [][MarkNext]_vars

(***************************************************************************)
(* Claims about highlightRange                                             *)
(***************************************************************************)
\* the highlight wrappers in the document
Wrappers(d) ==
    {n \in DOMAIN d.tag :
        InDocument(d, n) /\ d.cls[n] \in {HIGHLIGHT_CLASS, ACTIVE_HIGHLIGHT_CLASS}}

\* the wrappers around node n
WrappersAround(d, n) == {m \in Wrappers(d) : IsAncestor(d, m, n)}

\* C17 (as claimed): mark idempotence.  After highlightRange has run twice
\* on a range that the first call wrapped, every text node of the range is
\* inside exactly one highlight wrapper, the one the first call put in.
C17_MarkTwice ==
    (jumps = 2 /\ marks # <<>> /\ marks[1].jump = 1)
        => \A n \in DOMAIN dom.tag :
              (IsText(dom, n) /\ IsAncestor(dom, marks[1].node, n))
                  => WrappersAround(dom, n) = {marks[1].node}

MaxTimerIds == 4

\* what extractText can leave in `words`: the words of <main> from the caret
\* on, or one of its two fallbacks
Extracts ==
    {<<"ab", "cd">>, <<"cd">>,
     <<"No", "content", "found">>, <<"No", "readable", "content", "found">>}

displayCurrentWord(s) ==
    [s EXCEPT !.shown = IF s.currentIndex >= Len(s.words)
                            THEN "Ready"
                            ELSE s.words[s.currentIndex + 1]]

playNextWord(s) ==
    IF ~s.isPlaying
        THEN s
        ELSE IF s.currentIndex >= Len(s.words)
            THEN [s EXCEPT !.isPlaying = FALSE, !.currentIndex = 0]
            ELSE [displayCurrentWord(s) EXCEPT !.currentIndex = @ + 1,
                                               !.ids = @ + 1,
                                               !.intervalId = s.ids + 1,
                                               !.pending = @ \cup {s.ids + 1}]

startPlayback(s) ==
    playNextWord([s EXCEPT !.currentIndex = IF @ >= Len(s.words) THEN 0 ELSE @,
                           !.isPlaying = TRUE])

pausePlayback(s) ==
    IF s.intervalId # NoTimer
        THEN [s EXCEPT !.isPlaying = FALSE,
                       !.pending = @ \ {s.intervalId},
                       !.intervalId = NoTimer]
        ELSE [s EXCEPT !.isPlaying = FALSE]

stopPlayback(s) ==
    displayCurrentWord([pausePlayback(s) EXCEPT !.currentIndex = 0])

togglePlayPause(s) ==
    IF s.isPlaying THEN pausePlayback(s) ELSE startPlayback(s)

openModal(s, text) ==
    [displayCurrentWord([s EXCEPT !.words = text,
                                  !.currentIndex = 0,
                                  !.isPlaying = FALSE])
        EXCEPT !.active = TRUE]

closeModal(s) ==
    [(IF s.isPlaying THEN stopPlayback(s) ELSE s) EXCEPT !.active = FALSE]

\* a click on #rsvp-toggle
OpenModal(text) ==
    /\ rsvp' = openModal(rsvp, text)
    /\ UNCHANGED <<storeVars, anchorVars, jumpVars>>

\* a click on .rsvp-close or on the overlay
CloseModal ==
    /\ rsvp' = closeModal(rsvp)
    /\ UNCHANGED <<storeVars, anchorVars, jumpVars>>

\* the Escape key
Escape ==
    /\ rsvp.active
    /\ rsvp' = closeModal(rsvp)
    /\ UNCHANGED <<storeVars, anchorVars, jumpVars>>

\* a click on #rsvp-play-pause
TogglePlayPause ==
    /\ \E s \in {togglePlayPause(rsvp)} :
          /\ s.ids <= MaxTimerIds
          /\ rsvp' = s
    /\ UNCHANGED <<storeVars, anchorVars, jumpVars>>

\* the browser runs the callback of timeout `id`
PlaybackTimer(id) ==
    /\ id \in rsvp.pending
    /\ \E s \in {playNextWord([rsvp EXCEPT !.pending = @ \ {id}])} :
          /\ s.ids <= MaxTimerIds
          /\ rsvp' = s
    /\ UNCHANGED <<storeVars, anchorVars, jumpVars>>

RsvpNext ==
    \/ \E text \in Extracts : OpenModal(text)
    \/ CloseModal
    \/ Escape
    \/ TogglePlayPause
    \/ \E id \in rsvp.pending : PlaybackTimer(id)

RsvpStart ==
    /\ StoreInit
    /\ AnchorIdle
    /\ JumpIdle
    /\ RsvpInit

RsvpSpec == RsvpStart /\ [][RsvpNext]_vars

(***************************************************************************)
(* Claims about the reading-pace display                                   *)
(***************************************************************************)
\* C30: at most one playback timeout is pending at any time, one is pending
\* only while isPlaying is true, and currentIndex is within 0..words.length,
\* whatever the sequence of openModal, closeModal, togglePlayPause and
\* timeouts that came due.
C30_OnePlaybackTimer ==
    /\ Cardinality(rsvp.pending) <= 1
    /\ rsvp.pending # {} => rsvp.isPlaying
    /\ rsvp.currentIndex \in 0..Len(rsvp.words)

====
